---- MODULE Spec2Model ----
(***************************************************************************)
(* The bookmark manager of src/App.tsx as a state machine.                 *)
(*                                                                         *)
(* Spec      the App component: its state hooks and one action per event   *)
(*           handler.  The FileReader of handleImportFile is asynchronous: *)
(*           selecting the file and the onload callback are two steps, and *)
(*           the callback works on the `bookmarks` value its closure       *)
(*           captured when the file was selected.  localStorage takes      *)
(*           every write.                                                  *)
(* SpecStore the same App, in a browser whose localStorage takes writes    *)
(*           and in one whose localStorage refuses them.                   *)
(* SpecMove  arrayMove alone, by positions, there and back.                *)
(* SpecView  the filter of filteredBookmarks alone.                        *)
(* SpecSort  the derivation of filteredBookmarks alone: filter and sort.   *)
(*                                                                         *)
(* Values.  Strings that the code inspects character by character (title,  *)
(* domain, search query) are sequences of one-character strings; the       *)
(* other strings (id, url, category) are atomic.  JavaScript null and      *)
(* undefined are the sentinels Null and Undefined; a title or domain that  *)
(* is undefined is NoString.                                               *)
(***************************************************************************)
EXTENDS Integers, Sequences, FiniteSets, TLC

\* ------------------------------------------------------------------ bounds

\* crypto.randomUUID() is called at most MaxUuid times
MaxUuid == 2
\* the stored collection never grows beyond MaxBookmarks entries
MaxBookmarks == 3
\* an imported array has at most MaxFileLen elements
MaxFileLen == 2
\* at most MaxStale changes of the collection are made while a file is being read
MaxStale == 1
\* the collections arrayMove is run on alone have at most MaxMoveLen entries
MaxMoveLen == 4
\* the collections the filter is run on alone have at most MaxViewLen entries
MaxViewLen == 2
\* the collections the sort is run on alone have at most MaxSortLen entries
MaxSortLen == 3

\* ------------------------------------------------------------------ values

Null == "<null>"
Undefined == "<undefined>"

\* a title or domain that is undefined: the record has no such property
NoString == <<Undefined>>

CATEGORIES ==
  <<"All Bookmarks", "YouTube", "Websites", "Developer", "Social", "Learning", "Shopping">>

SortOption == {"newest", "oldest", "a-z", "z-a", "domain", "custom"}

\* the ids crypto.randomUUID() returns, in the order it returns them
Uuids == <<"u1", "u2", "u3", "u4">>

\* ids that occur only in files written elsewhere
FileIds == {"f1"}

\* what the user types or picks
QueryInputs == {<< >>, <<"A">>}
CategoryInputs == {"All Bookmarks", "Websites"}
SortInputs == {"newest", "a-z", "custom"}

\* Date.now()
Times == {1000}

\* the field values AddBookmarkForm submits (Omit<Bookmark, 'id' | 'createdAt'>)
FormData ==
  { [url |-> "https://a.io", title |-> <<"A">>, domain |-> <<"a", ".", "i">>,
     category |-> "YouTube"] }

\* ------------------------------------------------------------------ helpers

Min(a, b) == IF a < b THEN a ELSE b
Max(a, b) == IF a > b THEN a ELSE b

\* the ids of a collection, as new Set(bookmarks.map(b => b.id)) builds them
IdSet(items) == {items[k].id : k \in DOMAIN items}

\* String.prototype.toLowerCase, character by character
LowerChar(c) ==
  CASE c = "A" -> "a"
    [] c = "B" -> "b"
    [] c = "C" -> "c"
    [] OTHER -> c
toLowerCase(s) == [k \in 1..Len(s) |-> LowerChar(s[k])]

\* String.prototype.includes
includes(s, q) ==
  \E k \in 0..(Len(s) - Len(q)) : SubSeq(s, k + 1, k + Len(q)) = q

\* the entries of items whose id is not id, in order
Others(items, id) ==
  LET other(b) == b.id # id
  IN SelectSeq(items, other)

\* Array.prototype.findIndex on ids: the 0-based index of the first entry
\* with that id, -1 when there is none
findIndex(items, id) ==
  IF \E k \in DOMAIN items : items[k].id = id
    THEN (CHOOSE k \in DOMAIN items :
            items[k].id = id /\ \A m \in 1..(k - 1) : items[m].id # id) - 1
    ELSE 0 - 1

\* the index Array.prototype.splice starts at: negative counts from the end,
\* and the result is clamped to 0..len
spliceStart(len, start) ==
  IF start < 0 THEN Max(len + start, 0) ELSE Min(start, len)

\* mutant: the insertion index is corrected for the element removed before it
arrayMoveShifted(array, from, to) ==
  LET n == Len(array)
      item == array[from + 1]
      rest == SubSeq(array, 1, from) \o SubSeq(array, from + 2, n)
      p == IF to > from THEN to - 1 ELSE to
  IN SubSeq(rest, 1, p) \o <<item>> \o SubSeq(rest, p + 1, n - 1)

\* arrayMove of @dnd-kit/sortable:
\*   const newArray = array.slice();
\*   newArray.splice(to < 0 ? newArray.length + to : to, 0,
\*                   newArray.splice(from, 1)[0]);
\* The insertion index is computed before the inner splice removes the
\* element.  Indices are 0-based; the array is not empty and from < length.
arrayMove(array, from, to) ==
  LET n == Len(array)
      pos == IF to < 0 THEN n + to ELSE to
      f == spliceStart(n, from)
      item == array[f + 1]
      rest == SubSeq(array, 1, f) \o SubSeq(array, f + 2, n)
      p == spliceStart(n - 1, pos)
  IN SubSeq(rest, 1, p) \o <<item>> \o SubSeq(rest, p + 1, n - 1)

\* mutant: the query is compared as typed, not lower-cased
matchesFilterRawQuery(bookmark, category, query) ==
  LET matchesCategory == category = "All Bookmarks" \/ bookmark.category = category
      matchesSearch ==
        \/ includes(toLowerCase(bookmark.title), query)
        \/ includes(toLowerCase(bookmark.domain), query)
  IN matchesCategory /\ matchesSearch

\* the predicate of bookmarks.filter(...) in the derivation of filteredBookmarks
matchesFilter(bookmark, category, query) ==
  LET matchesCategory == category = "All Bookmarks" \/ bookmark.category = category
      matchesSearch ==
        \/ includes(toLowerCase(bookmark.title), toLowerCase(query))
        \/ includes(toLowerCase(bookmark.domain), toLowerCase(query))
  IN matchesCategory /\ matchesSearch

\* bookmarks.filter(...): the entries of the view, in stored order
filterBookmarks(items, category, query) ==
  LET keep(b) == matchesFilter(b, category, query)
  IN SelectSeq(items, keep)

\* the filter callback throws a TypeError: it calls toLowerCase() on the
\* title of every bookmark and, when the title does not hold the query, on
\* the domain
filterThrows(items, query) ==
  \E k \in DOMAIN items :
    \/ items[k].title = NoString
    \/ /\ ~includes(toLowerCase(items[k].title), toLowerCase(query))
       /\ items[k].domain = NoString

\* DndContext is rendered only when neither the collection nor the view is empty
DndMounted(items, category, query) ==
  items # << >> /\ filterBookmarks(items, category, query) # << >>

\* the collation keys of a character: its letter, then its case (lower case
\* first); a character that is no letter sorts before the letters
Primary(c) ==
  CASE c \in {"a", "A"} -> 1
    [] c \in {"b", "B"} -> 2
    [] c \in {"c", "C"} -> 3
    [] OTHER -> 0
Tertiary(c) == IF c \in {"A", "B", "C"} THEN 1 ELSE 0

\* two sequences of keys compared from the left: -1, 0 or 1
compareKeys(x, y) ==
  LET n == Min(Len(x), Len(y))
      diff == {k \in 1..n : x[k] # y[k]}
      first == CHOOSE k \in diff : \A m \in diff : k <= m
  IN IF diff # {} THEN (IF x[first] < y[first] THEN 0 - 1 ELSE 1)
     ELSE IF Len(x) < Len(y) THEN 0 - 1
     ELSE IF Len(x) > Len(y) THEN 1
     ELSE 0

\* String.prototype.localeCompare: the letters decide, case ignored; case
\* decides between strings of the same letters
localeCompare(a, b) ==
  LET letters == compareKeys([k \in 1..Len(a) |-> Primary(a[k])],
                             [k \in 1..Len(b) |-> Primary(b[k])])
  IN IF letters # 0 THEN letters
     ELSE compareKeys([k \in 1..Len(a) |-> Tertiary(a[k])],
                      [k \in 1..Len(b) |-> Tertiary(b[k])])

\* mutant: "custom" is not handled and falls to the first case
compareCustomByDate(a, b, option) ==
  CASE option = "oldest" -> a.createdAt - b.createdAt
    [] option = "a-z" -> localeCompare(a.title, b.title)
    [] option = "z-a" -> localeCompare(b.title, a.title)
    [] option = "domain" -> localeCompare(a.domain, b.domain)
    [] OTHER -> b.createdAt - a.createdAt

\* mutant: "z-a" compares as "a-z" does
compareZaAscending(a, b, option) ==
  CASE option = "newest" -> b.createdAt - a.createdAt
    [] option = "oldest" -> a.createdAt - b.createdAt
    [] option = "a-z" -> localeCompare(a.title, b.title)
    [] option = "z-a" -> localeCompare(a.title, b.title)
    [] option = "domain" -> localeCompare(a.domain, b.domain)
    [] OTHER -> 0

\* the comparator of .sort((a, b) => { switch (sortOption) ... })
compare(a, b, option) ==
  CASE option = "newest" -> b.createdAt - a.createdAt
    [] option = "oldest" -> a.createdAt - b.createdAt
    [] option = "a-z" -> localeCompare(a.title, b.title)
    [] option = "z-a" -> localeCompare(b.title, a.title)
    [] option = "domain" -> localeCompare(a.domain, b.domain)
    [] OTHER -> 0

\* one step of the sort: x goes behind the entries that do not sort after it
insertSorted(sorted, x, option) ==
  LET notAfter == {k \in DOMAIN sorted : compare(sorted[k], x, option) <= 0}
      p == IF notAfter = {} THEN 0 ELSE CHOOSE k \in notAfter : \A m \in notAfter : m <= k
  IN SubSeq(sorted, 1, p) \o <<x>> \o SubSeq(sorted, p + 1, Len(sorted))

\* Array.prototype.sort with that comparator: a stable sort (ECMAScript 2019)
RECURSIVE sortBookmarks(_, _)
sortBookmarks(items, option) ==
  IF items = << >> THEN << >>
  ELSE insertSorted(sortBookmarks(SubSeq(items, 1, Len(items) - 1), option),
                    items[Len(items)], option)

\* const filteredBookmarks = bookmarks.filter(...).sort(...): filter() builds
\* a new array and sort() sorts that array in place.  stored is the array
\* `bookmarks` after the derivation, view the list on screen.
filteredBookmarks(items, category, query, option) ==
  [stored |-> items,
   view |-> sortBookmarks(filterBookmarks(items, category, query), option)]

\* ------------------------------------------------------------------ import files

\* An element of a parsed array.  json is the kind of JSON value; a value
\* that is not an object has no properties (all Undefined).  createdAtType
\* is typeof createdAt.
Elem(json, id, url, createdAtType) ==
  [json |-> json, id |-> id, url |-> url, createdAtType |-> createdAtType,
   createdAt |-> 500, title |-> <<"B", "c">>, domain |-> <<"f", ".", "i">>,
   category |-> "Websites"]

JsonNull == Elem("null", Undefined, Undefined, "undefined")
JsonNumber == Elem("number", Undefined, Undefined, "undefined")

\* every way an element can fail the shape test
BadElems ==
  { JsonNull, JsonNumber,
    Elem("object", Undefined, "https://f.io", "number"),
    Elem("object", "", "https://f.io", "number"),
    Elem("object", "f1", Undefined, "number"),
    Elem("object", "f1", "https://f.io", "string"),
    Elem("object", "f1", "https://f.io", "undefined") }

Good(id) == Elem("object", id, "https://f.io", "number")

\* a record with id, url and numeric createdAt, and no title
Untitled(id) == [Good(id) EXCEPT !.title = NoString]

SeqsUpTo(S, n) == UNION {[1..k -> S] : k \in 0..n}

Text(kind, value) == [kind |-> kind, value |-> value]

\* The text FileReader delivers: empty, not JSON, JSON that is no array, or
\* a JSON array.  The arrays are those of well-formed records with ids from
\* ids or FileIds (an id may repeat), those with an element that fails the
\* shape test, alone or after a well-formed record, and one of a record
\* that passes the shape test and has no title.
FileTexts(ids) ==
  {Text(k, << >>) : k \in {"empty", "malformed", "object"}}
    \cup {Text("array", v) : v \in SeqsUpTo({Good(i) : i \in ids \cup FileIds}, MaxFileLen)}
    \cup {Text("array", <<b>>) : b \in BadElems}
    \cup {Text("array", <<Good("f1"), JsonNull>>)}
    \cup {Text("array", <<Untitled("f1")>>)}

\* a stored bookmark written by JSON.stringify and read back by JSON.parse
jsonElement(b) ==
  [json |-> "object", id |-> b.id, url |-> b.url, createdAtType |-> "number",
   createdAt |-> b.createdAt, title |-> b.title, domain |-> b.domain,
   category |-> b.category]

\* the array in the backup file handleExportData writes for a collection
exported(items) == [k \in DOMAIN items |-> jsonElement(items[k])]

\* JavaScript truthiness of a string-valued property
Truthy(v) == v \notin {Undefined, Null, ""}

\* b.id && b.url && typeof b.createdAt === 'number'
shapeOk(b) == Truthy(b.id) /\ Truthy(b.url) /\ b.createdAtType = "number"

\* parsed.every(b => b.id && b.url && typeof b.createdAt === 'number'):
\* every() stops at the first element that fails; reading b.id of null
\* throws a TypeError, which lands in the catch block.
isValid(parsed) ==
  LET fails(k) == parsed[k].json = "null" \/ ~shapeOk(parsed[k])
      bad == {k \in DOMAIN parsed : fails(k)}
      first == CHOOSE k \in bad : \A m \in bad : k <= m
  IN IF bad = {} THEN "true"
     ELSE IF parsed[first].json = "null" THEN "throw"
     ELSE "false"

\* a parsed element that passed the shape test, as the Bookmark it is stored as
asBookmark(b) ==
  [id |-> b.id, url |-> b.url, title |-> b.title, domain |-> b.domain,
   category |-> b.category, createdAt |-> b.createdAt]

\* const currentIds = new Set(bookmarks.map(b => b.id));
\* const newBookmarks = parsed.filter(b => !currentIds.has(b.id));
newBookmarks(current, parsed) ==
  LET currentIds == IdSet(current)
      isNew(b) == b.id \notin currentIds
      kept == SelectSeq(parsed, isNew)
  IN [k \in 1..Len(kept) |-> asBookmark(kept[k])]

\* const updatedBookmarks = [...bookmarks, ...newBookmarks];
updatedBookmarks(current, parsed) == current \o newBookmarks(current, parsed)

\* the alert() a handler raised, NoAlert when it raised none
Alert(text, count) == [text |-> text, count |-> count]
NoAlert == Alert("", 0)

\* ------------------------------------------------------------------ persistent store

\* useLocalStorage(key, initialValue) keeps a state value and writes it to
\* window.localStorage under the key on every change.

\* the key of the collection
DataKey == "bookmarker-data"

\* localStorage of a browser that never ran the App
EmptyStorage == [k \in {} |-> Text("empty", << >>)]

\* JSON.stringify(value) and JSON.parse(text) of a collection
serialize(items) == Text("array", exported(items))
deserialize(text) == [k \in DOMAIN text.value |-> asBookmark(text.value[k])]

\* write(key, value): the serialized value is stored under the key; a write
\* that fails is caught and leaves the store as it was
setItem(store, key, value, fails) ==
  IF fails THEN store
  ELSE [k \in DOMAIN store \cup {key} |-> IF k = key THEN value ELSE store[k]]

\* read(key): the stored value, the default when the key holds none
getItem(store, key, default) ==
  IF key \in DOMAIN store THEN deserialize(store[key]) ELSE default

\* ------------------------------------------------------------------ state

VARIABLES
  bookmarks,         \* useLocalStorage('bookmarker-data'): the stored collection
  selectedCategory,  \* useState: category filter
  searchQuery,       \* useState: search query
  sortOption,        \* useState: sort option
  isModalOpen,       \* useState: AddBookmarkForm is open
  isSettingsOpen,    \* useState: the settings dialog is open
  editingBookmark,   \* useState: << >> (null) or <<the bookmark being edited>>
  activeId,          \* useState: id of the dragged card, or Null
  itemToDelete,      \* useState: id awaiting delete confirmation, or Null
  fileReader,        \* << >> or <<bookmarks captured by the pending onload>>
  dragging,          \* DndContext has a drag in progress
  nextUuid,          \* how many ids crypto.randomUUID() has returned
  staleWrites,       \* changes of the collection since the pending read began
  alertMsg,          \* the alert() raised by the last step
  lastDrop,          \* what the last step did with a drop: "", "ignored" or "moved"
  localStorage,      \* window.localStorage: the values stored, by key
  storageFails,      \* localStorage.setItem throws (quota exceeded, storage disabled)
  probe              \* inputs and stage of a stand-alone run of one operator

vars ==
  <<bookmarks, selectedCategory, searchQuery, sortOption, isModalOpen, isSettingsOpen,
    editingBookmark, activeId, itemToDelete, fileReader, dragging, nextUuid, staleWrites,
    alertMsg, lastDrop, localStorage, storageFails, probe>>

view == <<selectedCategory, searchQuery, sortOption>>
dialogs == <<isModalOpen, isSettingsOpen, editingBookmark, itemToDelete>>
drag == <<activeId, dragging>>
reader == <<fileReader, staleWrites>>
storage == <<localStorage, storageFails>>

Init ==
  /\ localStorage = EmptyStorage
  /\ storageFails = FALSE
  /\ bookmarks = getItem(localStorage, DataKey, << >>)
  /\ selectedCategory = "All Bookmarks"
  /\ searchQuery = << >>
  /\ sortOption = "newest"
  /\ isModalOpen = FALSE
  /\ isSettingsOpen = FALSE
  /\ editingBookmark = << >>
  /\ activeId = Null
  /\ itemToDelete = Null
  /\ fileReader = << >>
  /\ dragging = FALSE
  /\ nextUuid = 0
  /\ staleWrites = 0
  /\ alertMsg = NoAlert
  /\ lastDrop = ""
  /\ probe = << >>

\* the ids of the cards on screen
ViewIds == IdSet(filterBookmarks(bookmarks, selectedCategory, searchQuery))

\* App is on screen: its last render did not throw.  A render that throws
\* unmounts App, and no handler of the page runs afterwards.
Mounted == ~filterThrows(bookmarks, searchQuery)

\* The page behind the dialogs takes pointer events: no dialog backdrop
\* (fixed inset-0) covers it and the pointer is not dragging a card.
PageFree == ~isModalOpen /\ ~isSettingsOpen /\ itemToDelete = Null /\ ~dragging

\* a change of the collection made by a handler other than onload
CanWrite == fileReader = << >> \/ staleWrites < MaxStale
Written == staleWrites' = IF fileReader = << >> THEN 0 ELSE staleWrites + 1

\* setBookmarks(value) of useLocalStorage: the new collection is written to
\* the store under its key
Stored == localStorage' = setItem(localStorage, DataKey, serialize(bookmarks'), storageFails)

\* ------------------------------------------------------------------ view parameters

SelectSort(o) ==
  /\ Mounted
  /\ PageFree
  /\ sortOption' = o
  /\ alertMsg' = NoAlert
  /\ lastDrop' = ""
  /\ UNCHANGED <<probe, storage>>
  /\ UNCHANGED <<bookmarks, selectedCategory, searchQuery, dialogs, drag, reader, nextUuid>>

SetSearchQuery(q) ==
  /\ Mounted
  /\ PageFree
  /\ searchQuery' = q
  /\ alertMsg' = NoAlert
  /\ lastDrop' = ""
  /\ UNCHANGED <<probe, storage>>
  /\ UNCHANGED <<bookmarks, selectedCategory, sortOption, dialogs, drag, reader, nextUuid>>

SelectCategory(c) ==
  /\ Mounted
  /\ PageFree
  /\ selectedCategory' = c
  /\ alertMsg' = NoAlert
  /\ lastDrop' = ""
  /\ UNCHANGED <<probe, storage>>
  /\ UNCHANGED <<bookmarks, searchQuery, sortOption, dialogs, drag, reader, nextUuid>>

\* ------------------------------------------------------------------ create and update

openAddModal ==
  /\ Mounted
  /\ PageFree
  /\ editingBookmark' = << >>
  /\ isModalOpen' = TRUE
  /\ alertMsg' = NoAlert
  /\ lastDrop' = ""
  /\ UNCHANGED <<probe, storage>>
  /\ UNCHANGED <<bookmarks, view, isSettingsOpen, itemToDelete, drag, reader, nextUuid>>

openEditModal(k) ==
  /\ Mounted
  /\ PageFree
  /\ k \in DOMAIN bookmarks
  /\ bookmarks[k].id \in ViewIds
  /\ editingBookmark' = <<bookmarks[k]>>
  /\ isModalOpen' = TRUE
  /\ alertMsg' = NoAlert
  /\ lastDrop' = ""
  /\ UNCHANGED <<probe, storage>>
  /\ UNCHANGED <<bookmarks, view, isSettingsOpen, itemToDelete, drag, reader, nextUuid>>

closeModal ==
  /\ Mounted
  /\ isModalOpen
  /\ isModalOpen' = FALSE
  /\ editingBookmark' = << >>
  /\ alertMsg' = NoAlert
  /\ lastDrop' = ""
  /\ UNCHANGED <<probe, storage>>
  /\ UNCHANGED <<bookmarks, view, isSettingsOpen, itemToDelete, drag, reader, nextUuid>>

\* prev.map(b => b.id === editingBookmark.id ? { ...b, ...bookmarkData } : b)
updateBookmark(prev, id, bookmarkData) ==
  [k \in 1..Len(prev) |->
     IF prev[k].id = id
       THEN [prev[k] EXCEPT !.url = bookmarkData.url, !.title = bookmarkData.title,
                            !.domain = bookmarkData.domain,
                            !.category = bookmarkData.category]
       ELSE prev[k]]

\* { ...bookmarkData, id: crypto.randomUUID(), createdAt: Date.now() }
newBookmark(bookmarkData, id, now) ==
  [id |-> id, url |-> bookmarkData.url, title |-> bookmarkData.title,
   domain |-> bookmarkData.domain, category |-> bookmarkData.category, createdAt |-> now]

\* mutant: the new bookmark is put behind the stored ones
handleSaveBookmarkAppend(bookmarkData, now) ==
  /\ Mounted
  /\ isModalOpen
  /\ CanWrite
  /\ Written
  /\ IF editingBookmark # << >>
       THEN /\ bookmarks' = updateBookmark(bookmarks, editingBookmark[1].id, bookmarkData)
            /\ UNCHANGED nextUuid
       ELSE /\ nextUuid < MaxUuid
            /\ Len(bookmarks) < MaxBookmarks
            /\ bookmarks' = bookmarks \o <<newBookmark(bookmarkData, Uuids[nextUuid + 1], now)>>
            /\ nextUuid' = nextUuid + 1
  /\ isModalOpen' = FALSE
  /\ editingBookmark' = << >>
  /\ alertMsg' = NoAlert
  /\ lastDrop' = ""
  /\ Stored
  /\ UNCHANGED <<probe, storageFails>>
  /\ UNCHANGED <<view, isSettingsOpen, itemToDelete, drag, fileReader>>

handleSaveBookmark(bookmarkData, now) ==
  /\ Mounted
  /\ isModalOpen
  /\ CanWrite
  /\ Written
  /\ IF editingBookmark # << >>
       THEN /\ bookmarks' = updateBookmark(bookmarks, editingBookmark[1].id, bookmarkData)
            /\ UNCHANGED nextUuid
       ELSE /\ nextUuid < MaxUuid
            /\ Len(bookmarks) < MaxBookmarks
            /\ bookmarks' = <<newBookmark(bookmarkData, Uuids[nextUuid + 1], now)>> \o bookmarks
            /\ nextUuid' = nextUuid + 1
  /\ isModalOpen' = FALSE
  /\ editingBookmark' = << >>
  /\ alertMsg' = NoAlert
  /\ lastDrop' = ""
  /\ Stored
  /\ UNCHANGED <<probe, storageFails>>
  /\ UNCHANGED <<view, isSettingsOpen, itemToDelete, drag, fileReader>>

\* ------------------------------------------------------------------ delete and clear

\* mutant: the click deletes at once, without the confirmation dialog
handleDeleteClickNow(id) ==
  /\ Mounted
  /\ PageFree
  /\ id \in ViewIds
  /\ CanWrite
  /\ Written
  /\ bookmarks' = Others(bookmarks, id)
  /\ Stored
  /\ alertMsg' = NoAlert
  /\ lastDrop' = ""
  /\ UNCHANGED <<probe, storageFails>>
  /\ UNCHANGED <<view, dialogs, drag, fileReader, nextUuid>>

handleDeleteClick(id) ==
  /\ Mounted
  /\ PageFree
  /\ id \in ViewIds
  /\ itemToDelete' = id
  /\ alertMsg' = NoAlert
  /\ lastDrop' = ""
  /\ UNCHANGED <<probe, storage>>
  /\ UNCHANGED <<bookmarks, view, isModalOpen, isSettingsOpen, editingBookmark, drag,
                 reader, nextUuid>>

cancelDelete ==
  /\ Mounted
  /\ itemToDelete # Null
  /\ itemToDelete' = Null
  /\ alertMsg' = NoAlert
  /\ lastDrop' = ""
  /\ UNCHANGED <<probe, storage>>
  /\ UNCHANGED <<bookmarks, view, isModalOpen, isSettingsOpen, editingBookmark, drag,
                 reader, nextUuid>>

confirmDelete ==
  /\ Mounted
  /\ itemToDelete # Null
  /\ CanWrite
  /\ Written
  /\ LET keep(b) == b.id # itemToDelete
     IN bookmarks' = SelectSeq(bookmarks, keep)
  /\ itemToDelete' = Null
  /\ alertMsg' = NoAlert
  /\ lastDrop' = ""
  /\ Stored
  /\ UNCHANGED <<probe, storageFails>>
  /\ UNCHANGED <<view, isModalOpen, isSettingsOpen, editingBookmark, drag, fileReader,
                 nextUuid>>

openSettings ==
  /\ Mounted
  /\ PageFree
  /\ isSettingsOpen' = TRUE
  /\ alertMsg' = NoAlert
  /\ lastDrop' = ""
  /\ UNCHANGED <<probe, storage>>
  /\ UNCHANGED <<bookmarks, view, isModalOpen, editingBookmark, itemToDelete, drag,
                 reader, nextUuid>>

closeSettings ==
  /\ Mounted
  /\ isSettingsOpen
  /\ isSettingsOpen' = FALSE
  /\ alertMsg' = NoAlert
  /\ lastDrop' = ""
  /\ UNCHANGED <<probe, storage>>
  /\ UNCHANGED <<bookmarks, view, isModalOpen, editingBookmark, itemToDelete, drag,
                 reader, nextUuid>>

\* mutant: the collection is emptied without the setter of useLocalStorage
handleClearAllUnsaved(confirmed) ==
  /\ Mounted
  /\ isSettingsOpen
  /\ IF confirmed
       THEN CanWrite /\ Written /\ bookmarks' = << >> /\ isSettingsOpen' = FALSE
       ELSE UNCHANGED <<bookmarks, isSettingsOpen, staleWrites>>
  /\ alertMsg' = NoAlert
  /\ lastDrop' = ""
  /\ UNCHANGED <<probe, storage>>
  /\ UNCHANGED <<view, isModalOpen, editingBookmark, itemToDelete, drag, fileReader, nextUuid>>

handleClearAll(confirmed) ==
  /\ Mounted
  /\ isSettingsOpen
  /\ IF confirmed
       THEN CanWrite /\ Written /\ bookmarks' = << >> /\ Stored /\ isSettingsOpen' = FALSE
       ELSE UNCHANGED <<bookmarks, isSettingsOpen, staleWrites, localStorage>>
  /\ alertMsg' = NoAlert
  /\ lastDrop' = ""
  /\ UNCHANGED <<probe, storageFails>>
  /\ UNCHANGED <<view, isModalOpen, editingBookmark, itemToDelete, drag, fileReader, nextUuid>>

\* ------------------------------------------------------------------ import

\* The change handler of the file input: starts the read and returns.  The
\* onload callback it installs closes over this render's `bookmarks`.
handleImportFile ==
  /\ Mounted
  /\ isSettingsOpen
  /\ fileReader = << >>
  /\ fileReader' = <<bookmarks>>
  /\ staleWrites' = 0
  /\ alertMsg' = NoAlert
  /\ lastDrop' = ""
  /\ UNCHANGED <<probe, storage>>
  /\ UNCHANGED <<bookmarks, view, dialogs, drag, nextUuid>>

\* what fileReader.onload does to the collection, the settings dialog and
\* the alert, given the text read, the answer to confirm() and the
\* `bookmarks` of its closure: <<collection, settings open, alert, whether
\* setBookmarks was called>>
\* mutant: the merge is applied without the shape test
onloadResultUnchecked(current, settingsOpen, closure, text, confirmed) ==
  LET unchanged(alert) == <<current, settingsOpen, alert, FALSE>>
  IN CASE text.kind = "empty" -> unchanged(NoAlert)
       [] text.kind = "malformed" -> unchanged(Alert("Error parsing JSON file.", 0))
       [] text.kind = "object" ->
            unchanged(Alert("Invalid JSON format. Expected an array of bookmarks.", 0))
       [] OTHER ->
            <<updatedBookmarks(closure, text.value), FALSE,
              Alert("Successfully imported new bookmarks.",
                    Len(newBookmarks(closure, text.value))), TRUE>>

onloadResult(current, settingsOpen, closure, text, confirmed) ==
  LET unchanged(alert) == <<current, settingsOpen, alert, FALSE>>
  IN CASE text.kind = "empty" -> unchanged(NoAlert)
       [] text.kind = "malformed" -> unchanged(Alert("Error parsing JSON file.", 0))
       [] text.kind = "object" ->
            unchanged(Alert("Invalid JSON format. Expected an array of bookmarks.", 0))
       [] OTHER ->
            LET valid == isValid(text.value)
            IN IF valid = "throw"
                 THEN unchanged(Alert("Error parsing JSON file.", 0))
               ELSE IF valid = "false"
                 THEN unchanged(Alert(
                        "Invalid file format. Please upload a valid Bookmarker JSON backup.", 0))
               ELSE IF ~confirmed
                 THEN unchanged(NoAlert)
               ELSE <<updatedBookmarks(closure, text.value), FALSE,
                      Alert("Successfully imported new bookmarks.",
                            Len(newBookmarks(closure, text.value))), TRUE>>

\* confirm() is asked only about an array that passed the shape test
Answers(text) ==
  IF text.kind = "array" /\ isValid(text.value) = "true" THEN BOOLEAN ELSE {FALSE}

\* the texts the pending read can deliver: the sample files, and the backup
\* of the collection as it was when the file was selected
PendingTexts ==
  IF fileReader = << >> THEN {}
  ELSE FileTexts(IdSet(fileReader[1])) \cup {Text("array", exported(fileReader[1]))}

onload(text, confirmed) ==
  /\ fileReader # << >>
  /\ LET r == onloadResult(bookmarks, isSettingsOpen, fileReader[1], text, confirmed)
     IN /\ Len(r[1]) <= MaxBookmarks
        /\ bookmarks' = r[1]
        /\ isSettingsOpen' = r[2]
        /\ alertMsg' = r[3]
        /\ IF r[4] THEN Stored ELSE UNCHANGED localStorage
        /\ dragging' = (dragging /\ DndMounted(r[1], selectedCategory, searchQuery))
  /\ lastDrop' = ""
  /\ UNCHANGED <<probe, storageFails>>
  /\ fileReader' = << >>
  /\ staleWrites' = 0
  /\ UNCHANGED <<view, isModalOpen, editingBookmark, itemToDelete, activeId, nextUuid>>

\* ------------------------------------------------------------------ drag and drop

handleDragStart(id) ==
  /\ Mounted
  /\ PageFree
  /\ id \in ViewIds
  /\ activeId' = id
  /\ dragging' = TRUE
  /\ alertMsg' = NoAlert
  /\ lastDrop' = ""
  /\ UNCHANGED <<probe, storage>>
  /\ UNCHANGED <<bookmarks, view, dialogs, reader, nextUuid>>

\* the updater handleDragEnd passes to setBookmarks
reorder(items, active, over) ==
  LET oldIndex == findIndex(items, active)
      newIndex == findIndex(items, over)
  IN arrayMove(items, oldIndex, newIndex)

\* mutant: the drop does not switch the sort option
handleDragEndKeepSort(over) ==
  /\ Mounted
  /\ dragging
  /\ over \in ViewIds \cup {Null}
  /\ activeId' = Null
  /\ dragging' = FALSE
  /\ IF over = Null \/ activeId = over
       THEN /\ UNCHANGED <<bookmarks, staleWrites, localStorage>>
            /\ lastDrop' = "ignored"
       ELSE /\ CanWrite
            /\ Written
            /\ bookmarks' = reorder(bookmarks, activeId, over)
            /\ Stored
            /\ lastDrop' = "moved"
  /\ alertMsg' = NoAlert
  /\ UNCHANGED <<probe, storageFails>>
  /\ UNCHANGED <<view, dialogs, fileReader, nextUuid>>

\* mutant: only a missing target is ignored, a drop on the dragged card is not
handleDragEndSelfDrop(over) ==
  /\ Mounted
  /\ dragging
  /\ over \in ViewIds \cup {Null}
  /\ activeId' = Null
  /\ dragging' = FALSE
  /\ IF over = Null
       THEN /\ UNCHANGED <<bookmarks, sortOption, staleWrites, localStorage>>
            /\ lastDrop' = "ignored"
       ELSE /\ CanWrite
            /\ Written
            /\ sortOption' = "custom"
            /\ bookmarks' = reorder(bookmarks, activeId, over)
            /\ Stored
            /\ lastDrop' = "moved"
  /\ alertMsg' = NoAlert
  /\ UNCHANGED <<probe, storageFails>>
  /\ UNCHANGED <<selectedCategory, searchQuery, dialogs, fileReader, nextUuid>>

\* event.active.id is the id handleDragStart saw; event.over is a card of
\* the view, or null
handleDragEnd(over) ==
  /\ Mounted
  /\ dragging
  /\ over \in ViewIds \cup {Null}
  /\ activeId' = Null
  /\ dragging' = FALSE
  /\ IF over = Null \/ activeId = over
       THEN /\ UNCHANGED <<bookmarks, sortOption, staleWrites, localStorage>>
            /\ lastDrop' = "ignored"
       ELSE /\ CanWrite
            /\ Written
            /\ sortOption' = "custom"
            /\ bookmarks' = reorder(bookmarks, activeId, over)
            /\ Stored
            /\ lastDrop' = "moved"
  /\ alertMsg' = NoAlert
  /\ UNCHANGED <<probe, storageFails>>
  /\ UNCHANGED <<selectedCategory, searchQuery, dialogs, fileReader, nextUuid>>

\* ------------------------------------------------------------------ specification

Next ==
  \/ \E o \in SortInputs : SelectSort(o)
  \/ \E q \in QueryInputs : SetSearchQuery(q)
  \/ \E c \in CategoryInputs : SelectCategory(c)
  \/ openAddModal
  \/ \E k \in 1..MaxBookmarks : openEditModal(k)
  \/ closeModal
  \/ \E d \in FormData, now \in Times : handleSaveBookmark(d, now)
  \/ \E id \in ViewIds : handleDeleteClick(id)
  \/ cancelDelete
  \/ confirmDelete
  \/ openSettings
  \/ closeSettings
  \/ \E confirmed \in BOOLEAN : handleClearAll(confirmed)
  \/ handleImportFile
  \/ \E text \in PendingTexts :
       \E confirmed \in Answers(text) : onload(text, confirmed)
  \/ \E id \in ViewIds : handleDragStart(id)
  \/ \E over \in ViewIds \cup {Null} : handleDragEnd(over)

Spec == Init /\ [][Next]_vars

\* ------------------------------------------------------------------ claims: import

\* an element without a non-empty id, without url or without a numeric
\* createdAt; a value that is no record has none of them
LacksShape(e) ==
  \/ e.json # "object"
  \/ e.id \in {Undefined, ""}
  \/ e.url = Undefined
  \/ e.createdAtType # "number"

ValidArray(text) ==
  text.kind = "array" /\ \A k \in DOMAIN text.value : ~LacksShape(text.value[k])

FailingText(text) ==
  \/ text.kind \in {"malformed", "object"}
  \/ text.kind = "array" /\ \E k \in DOMAIN text.value : LacksShape(text.value[k])

\* the incoming elements whose id no entry of items has, in incoming order
NotPresent(text, items) ==
  LET absent(e) == \A k \in DOMAIN items : items[k].id # e.id
  IN SelectSeq(text.value, absent)

\* the step is a confirmed import of the valid array text
ImportApplied(text) == ValidArray(text) /\ onload(text, TRUE)

\* C1: no two bookmarks of the stored collection have the same id.
C1_UniqueIds ==
  \A i, j \in DOMAIN bookmarks : i # j => bookmarks[i].id # bookmarks[j].id

\* C2: a confirmed import of a valid array leaves the current collection
\* followed by the incoming elements whose id is not in it, in incoming
\* order, and reports the number of those elements.
C2_ImportAppends ==
  [][\A text \in PendingTexts :
       ImportApplied(text) =>
         LET added == NotPresent(text, bookmarks)
         IN /\ Len(bookmarks') = Len(bookmarks) + Len(added)
            /\ SubSeq(bookmarks', 1, Len(bookmarks)) = bookmarks
            /\ \A k \in DOMAIN added :
                 bookmarks'[Len(bookmarks) + k].id = added[k].id
            /\ alertMsg'.count = Len(added)]_vars

\* C3: the onload callback merges into the collection as it is when the
\* callback runs: every entry the collection holds at that moment is still
\* there, unchanged and at its place, after the import.
C3_MergeIntoCurrent ==
  [][\A text \in PendingTexts :
       ImportApplied(text) =>
         /\ Len(bookmarks') >= Len(bookmarks)
         /\ \A k \in DOMAIN bookmarks : bookmarks'[k] = bookmarks[k]]_vars

\* C4: an import that fails (text that does not parse, a value that is no
\* array, an array with an element of invalid shape) leaves the stored
\* collection as it was.
C4_FailedImportKeeps ==
  [][\A text \in PendingTexts : \A confirmed \in BOOLEAN :
       (FailingText(text) /\ onload(text, confirmed)) => bookmarks' = bookmarks]_vars

C4_Witness ==
  /\ alertMsg.text \in
       { "Error parsing JSON file.",
         "Invalid JSON format. Expected an array of bookmarks.",
         "Invalid file format. Please upload a valid Bookmarker JSON backup." }
  /\ bookmarks # << >>

\* C5: an array with an element of invalid shape (null included) is
\* rejected with the invalid-shape alert, not the not-an-array alert and not
\* the parse-error alert.
C5_InvalidShapeAlert ==
  [][\A text \in PendingTexts : \A confirmed \in BOOLEAN :
       ( /\ text.kind = "array"
         /\ \E k \in DOMAIN text.value : LacksShape(text.value[k])
         /\ onload(text, confirmed) )
       => alertMsg'.text =
            "Invalid file format. Please upload a valid Bookmarker JSON backup."]_vars

\* ------------------------------------------------------------------ claims: reorder

\* the step is a drag end that applies a reorder: the target is there and is
\* not the dragged card
Reordered(over) == handleDragEnd(over) /\ over # Null /\ over # activeId

\* C6: a reorder leaves the sort option "custom" whatever it was; the sort
\* option changes only when the user selects one or a reorder is applied.
C6_ReorderForcesCustom ==
  [][/\ \A over \in ViewIds : Reordered(over) => sortOption' = "custom"
     /\ sortOption' # sortOption =>
          \/ \E o \in SortInputs : SelectSort(o)
          \/ \E over \in ViewIds : Reordered(over)]_vars

C6_Witness == lastDrop = "moved" /\ sortOption = "custom" /\ Len(bookmarks) >= 2

\* C7: a reorder of source id S onto target id T puts S at the index T had
\* in the stored collection and keeps the other entries in their order.
C7_SingleMove ==
  [][\A over \in ViewIds :
       Reordered(over) =>
         /\ Len(bookmarks') = Len(bookmarks)
         /\ bookmarks'[findIndex(bookmarks, over) + 1].id = activeId
         /\ Others(bookmarks', activeId) = Others(bookmarks, activeId)]_vars

\* C9: a drag end without target, or onto the dragged card, changes neither
\* the stored collection nor the sort option and clears the active id.
C9_DropIgnored ==
  [][\A over \in ViewIds \cup {Null} :
       (handleDragEnd(over) /\ (over = Null \/ over = activeId)) =>
         /\ bookmarks' = bookmarks
         /\ sortOption' = sortOption
         /\ activeId' = Null]_vars

C9_Witness ==
  lastDrop = "ignored" /\ activeId = Null /\ sortOption # "custom" /\ Len(bookmarks) >= 2

\* ------------------------------------------------------------------ claims: create, update, delete

\* the step saves the form with no bookmark being edited: a create
Created(d, now) == handleSaveBookmark(d, now) /\ editingBookmark = << >>

\* C13: a create gives the new bookmark an id no stored bookmark has and
\* puts it in front of the stored collection, whose entries stay as they
\* were and in their order; of two bookmarks created one after the other
\* both are stored, with different ids, the later one first.
C13_CreatePrepends ==
  [][\A d \in FormData, now \in Times :
       Created(d, now) =>
         /\ Len(bookmarks') = Len(bookmarks) + 1
         /\ bookmarks'[1].id \notin IdSet(bookmarks)
         /\ \A k \in DOMAIN bookmarks : bookmarks'[k + 1] = bookmarks[k]
         /\ \A k \in 2..Len(bookmarks') : bookmarks'[k].id # bookmarks'[1].id]_vars

C13_Witness ==
  /\ nextUuid = 2
  /\ Len(bookmarks) = 2
  /\ bookmarks[1].id = Uuids[2]
  /\ bookmarks[2].id = Uuids[1]
  /\ ~isModalOpen
  /\ sortOption = "newest"

\* the step saves the form while the bookmark with that id is being edited
Updated(d, now, id) ==
  handleSaveBookmark(d, now) /\ editingBookmark # << >> /\ editingBookmark[1].id = id

\* the positions whose entry the step changes
Changed == {k \in DOMAIN bookmarks \cap DOMAIN bookmarks' : bookmarks'[k] # bookmarks[k]}

\* C14: an update of an id changes the mutable fields of the entry with that
\* id and nothing else: the entry keeps its id, its createdAt and its
\* position, every other entry and the length stay as they were; when no
\* entry has the id the collection stays as it was.
C14_UpdateInPlace ==
  [][\A d \in FormData, now \in Times, id \in IdSet(bookmarks) \cup IdSet(editingBookmark) :
       Updated(d, now, id) =>
         /\ Len(bookmarks') = Len(bookmarks)
         /\ \A k \in DOMAIN bookmarks :
              /\ bookmarks'[k].id = bookmarks[k].id
              /\ bookmarks'[k].createdAt = bookmarks[k].createdAt
              /\ bookmarks[k].id # id => bookmarks'[k] = bookmarks[k]
         /\ Cardinality(Changed) <= 1
         /\ id \notin IdSet(bookmarks) => bookmarks' = bookmarks]_vars

\* the step confirms the delete of the id
Deleted(id) == confirmDelete /\ itemToDelete = id

\* C15: a delete of an id removes the one entry with that id and keeps the
\* other entries as they were, in their order; when no entry has the id the
\* collection stays as it was.
C15_DeleteExactlyOne ==
  [][\A id \in IdSet(bookmarks) \cup {itemToDelete} :
       Deleted(id) =>
         IF id \in IdSet(bookmarks)
           THEN /\ Len(bookmarks') = Len(bookmarks) - 1
                /\ bookmarks' = Others(bookmarks, id)
           ELSE bookmarks' = bookmarks]_vars

\* ------------------------------------------------------------------ claims: merge identity

\* the text is the backup of the collection
HoldsCollection(text, items) == text.kind = "array" /\ text.value = exported(items)

\* C16: a confirmed import of a file whose content is the current collection
\* adds no bookmark and leaves the stored collection as it was, order
\* included.
C16_MergeIdentity ==
  [][\A text \in PendingTexts :
       (HoldsCollection(text, bookmarks) /\ onload(text, TRUE)) =>
         /\ bookmarks' = bookmarks
         /\ alertMsg'.count = 0]_vars

\* ------------------------------------------------------------------ claims: persistent store

\* SpecStore is the App in a browser whose localStorage takes writes, and in
\* one whose localStorage refuses them.
InitStore ==
  /\ localStorage = EmptyStorage
  /\ storageFails \in BOOLEAN
  /\ bookmarks = getItem(localStorage, DataKey, << >>)
  /\ selectedCategory = "All Bookmarks"
  /\ searchQuery = << >>
  /\ sortOption = "newest"
  /\ isModalOpen = FALSE
  /\ isSettingsOpen = FALSE
  /\ editingBookmark = << >>
  /\ activeId = Null
  /\ itemToDelete = Null
  /\ fileReader = << >>
  /\ dragging = FALSE
  /\ nextUuid = 0
  /\ staleWrites = 0
  /\ alertMsg = NoAlert
  /\ lastDrop = ""
  /\ probe = << >>

SpecStore == InitStore /\ [][Next]_vars

\* the step is a completed mutation of the collection: a create or update, a
\* confirmed delete, a reorder, a confirmed import or a confirmed clear
Mutation ==
  \/ isModalOpen /\ ~isModalOpen' /\ \E d \in FormData, now \in Times : handleSaveBookmark(d, now)
  \/ itemToDelete # Null /\ confirmDelete
  \/ dragging /\ ~dragging' /\ \E over \in ViewIds : Reordered(over)
  \/ /\ fileReader # << >> /\ fileReader' = << >>
     /\ alertMsg'.text = "Successfully imported new bookmarks."
     /\ \E text \in PendingTexts : ImportApplied(text)
  \/ isSettingsOpen /\ handleClearAll(TRUE)

\* the store holds the collection under its key, order included
StoreHolds(store, items) == DataKey \in DOMAIN store /\ deserialize(store[DataKey]) = items

\* C17 as stated: after every completed mutation the store holds the
\* in-memory collection under the collection key, order included; the view
\* parameters are never written: the store has no other key and no other
\* step changes it.
C17_StoreFollows ==
  [][/\ IF Mutation THEN StoreHolds(localStorage', bookmarks')
        ELSE localStorage' = localStorage
     /\ DOMAIN localStorage' \subseteq {DataKey}]_vars

\* C17 as amended: a completed mutation whose write succeeds leaves the
\* in-memory collection in the store, order included; one whose write fails
\* leaves the store as it was; the store has no key but the collection key
\* and no other step changes it.
C17_StoreFollowsWrites ==
  [][/\ IF ~storageFails /\ Mutation THEN StoreHolds(localStorage', bookmarks')
        ELSE localStorage' = localStorage
     /\ DOMAIN localStorage' \subseteq {DataKey}]_vars

C17_Witness ==
  /\ ~storageFails
  /\ lastDrop = "moved"
  /\ sortOption = "custom"
  /\ Len(bookmarks) >= 2
  /\ bookmarks[1].createdAt < bookmarks[2].createdAt
  /\ StoreHolds(localStorage, bookmarks)

\* ------------------------------------------------------------------ claims: confirmation

\* the step declines the prompt of an import and changes the collection
DeclinedImportChanges ==
  bookmarks' # bookmarks /\ \E text \in PendingTexts : onload(text, FALSE)

\* the step is a confirmed import that changes the collection
ConfirmedImportChanges ==
  /\ bookmarks' # bookmarks
  /\ fileReader # << >> /\ fileReader' = << >>
  /\ \E text \in PendingTexts : ImportApplied(text)

\* what C18 says of the steps that request, cancel, decline and confirm
ConfirmationSteps ==
  /\ (\E id \in ViewIds : handleDeleteClick(id)) => bookmarks' = bookmarks
  /\ cancelDelete => bookmarks' = bookmarks
  /\ handleClearAll(FALSE) => bookmarks' = bookmarks
  /\ ~DeclinedImportChanges
  /\ confirmDelete => itemToDelete' = Null

C19_StringFields ==
  /\ \A k \in DOMAIN bookmarks :
       bookmarks[k].title # NoString /\ bookmarks[k].domain # NoString
  /\ \A q \in QueryInputs : ~filterThrows(bookmarks, q)

\* ------------------------------------------------------------------ claims: drag ids

\* C20: when a drag end applies a reorder, the dragged id and the target id
\* are both found in the stored collection as it is at that moment, and the
\* result is the stored collection with only the dragged bookmark moved:
\* the same length, the dragged bookmark still there, the others in the
\* order they had.
C20_DragIdsResolve ==
  [][\A over \in ViewIds :
       Reordered(over) =>
         /\ findIndex(bookmarks, activeId) >= 0
         /\ findIndex(bookmarks, over) >= 0
         /\ Len(bookmarks') = Len(bookmarks)
         /\ activeId \in IdSet(bookmarks')
         /\ Others(bookmarks', activeId) = Others(bookmarks, activeId)]_vars

\* ------------------------------------------------------------------ arrayMove alone

\* SpecMove runs the move of handleDragEnd on a collection by positions:
\* from a position to another, and back.

MoveItem(id) ==
  [id |-> id, url |-> "https://a.io", title |-> <<"A">>, domain |-> <<"a", ".", "i">>,
   category |-> "YouTube", createdAt |-> 1000]

MoveSamples ==
  UNION {[1..n -> {MoveItem(id) : id \in {"u1", "u2", "f1"}}] : n \in 1..MaxMoveLen}

\* the state of the App around a stand-alone run
Idle ==
  /\ selectedCategory = "All Bookmarks"
  /\ searchQuery = << >>
  /\ sortOption = "newest"
  /\ isModalOpen = FALSE
  /\ isSettingsOpen = FALSE
  /\ editingBookmark = << >>
  /\ activeId = Null
  /\ itemToDelete = Null
  /\ fileReader = << >>
  /\ dragging = FALSE
  /\ nextUuid = 0
  /\ staleWrites = 0
  /\ alertMsg = NoAlert
  /\ lastDrop = ""
  /\ localStorage = EmptyStorage
  /\ storageFails = FALSE

InitMove ==
  /\ Idle
  /\ bookmarks \in MoveSamples
  /\ \E i, j \in 0..(MaxMoveLen - 1) :
       /\ i < Len(bookmarks)
       /\ j < Len(bookmarks)
       /\ probe = [stage |-> "start", orig |-> bookmarks, from |-> i, to |-> j]

\* setBookmarks(items => arrayMove(items, oldIndex, newIndex))
moveThere ==
  /\ probe.stage = "start"
  /\ bookmarks' = arrayMove(bookmarks, probe.from, probe.to)
  /\ probe' = [probe EXCEPT !.stage = "moved"]
  /\ UNCHANGED <<view, dialogs, drag, reader, nextUuid, alertMsg, lastDrop, storage>>

\* the same move with the two positions exchanged
moveBack ==
  /\ probe.stage = "moved"
  /\ bookmarks' = arrayMove(bookmarks, probe.to, probe.from)
  /\ probe' = [probe EXCEPT !.stage = "back"]
  /\ UNCHANGED <<view, dialogs, drag, reader, nextUuid, alertMsg, lastDrop, storage>>

NextMove == moveThere \/ moveBack

SpecMove == InitMove /\ [][NextMove]_vars

ViewItem(id, title, domain, category) ==
  [id |-> id, url |-> "https://a.io", title |-> title, domain |-> domain,
   category |-> category, createdAt |-> 1000]

ViewItems ==
  { ViewItem("s1", <<"A", "b">>, <<"x", ".", "c">>, "Websites"),
    ViewItem("s2", <<"b", "A">>, <<"B", ".", "c">>, "YouTube"),
    ViewItem("s3", << >>, <<"a", "b", ".", "c">>, "Websites"),
    ViewItem("s4", <<"C">>, <<"c", ".", "a">>, "Developer") }

QuerySamples == SeqsUpTo({"a", "A", "b", "B", "."}, 2)

InitView ==
  /\ Idle
  /\ bookmarks \in SeqsUpTo(ViewItems, MaxViewLen)
  /\ probe = << >>

NextView ==
  \/ \E c \in {CATEGORIES[k] : k \in DOMAIN CATEGORIES} : SelectCategory(c)
  \/ \E q \in QuerySamples : SetSearchQuery(q)
  \/ \E o \in SortOption : SelectSort(o)

SpecView == InitView /\ [][NextView]_vars

\* two characters that differ at most in case
SameLetter(a, b) ==
  a = b \/ {a, b} \in {{"a", "A"}, {"b", "B"}, {"c", "C"}}

\* q occurs in s, case ignored
OccursIgnoringCase(q, s) ==
  \E off \in 0..(Len(s) - Len(q)) : \A i \in 1..Len(q) : SameLetter(q[i], s[off + i])

Shown == filterBookmarks(bookmarks, selectedCategory, searchQuery)

\* C10: a bookmark is in the view exactly if the category is "All
\* Bookmarks" or its own and the query occurs, case ignored, in its title or
\* its domain; the empty query keeps every bookmark of the category; the
\* view holds bookmarks of the collection only.
C10_FilterExact ==
  /\ \A k \in DOMAIN bookmarks :
       (\E m \in DOMAIN Shown : Shown[m] = bookmarks[k])
         <=> /\ selectedCategory = "All Bookmarks" \/ bookmarks[k].category = selectedCategory
             /\ \/ OccursIgnoringCase(searchQuery, bookmarks[k].title)
                \/ OccursIgnoringCase(searchQuery, bookmarks[k].domain)
  /\ \A m \in DOMAIN Shown : \E k \in DOMAIN bookmarks : Shown[m] = bookmarks[k]
  /\ (searchQuery = << >> /\ selectedCategory = "All Bookmarks") => Shown = bookmarks

C10_Witness ==
  /\ searchQuery = <<"B">>
  /\ selectedCategory = "Websites"
  /\ Len(bookmarks) = 2
  /\ Len(Shown) = 1
  /\ Shown[1].title = <<"A", "b">>

\* ------------------------------------------------------------------ the derivation of the view alone

\* SpecSort runs the derivation of filteredBookmarks once on a collection of
\* distinct bookmarks, under a category, a query and every sort option.

SortItem(id, title, domain, category, createdAt) ==
  [id |-> id, url |-> "https://a.io", title |-> title, domain |-> domain,
   category |-> category, createdAt |-> createdAt]

\* bookmarks that tie on each key: s1 and s3 on createdAt, s2 and s4 on
\* title, s2 and s3 on domain; s3 has the letters of s2's title in lower case
SortItems ==
  { SortItem("s1", <<"b">>, <<"x", ".", "c">>, "Websites", 200),
    SortItem("s2", <<"A">>, <<"b", ".", "c">>, "Websites", 100),
    SortItem("s3", <<"a">>, <<"b", ".", "c">>, "YouTube", 200),
    SortItem("s4", <<"A">>, <<"a", ".", "c">>, "Websites", 300) }

SortSamples ==
  {c \in SeqsUpTo(SortItems, MaxSortLen) : \A i, j \in DOMAIN c : i # j => c[i] # c[j]}

InitSort ==
  /\ bookmarks \in SortSamples
  /\ selectedCategory \in {"All Bookmarks", "Websites"}
  /\ searchQuery \in {<< >>, <<"a">>, <<"C">>}
  /\ sortOption \in SortOption
  /\ isModalOpen = FALSE
  /\ isSettingsOpen = FALSE
  /\ editingBookmark = << >>
  /\ activeId = Null
  /\ itemToDelete = Null
  /\ fileReader = << >>
  /\ dragging = FALSE
  /\ nextUuid = 0
  /\ staleWrites = 0
  /\ alertMsg = NoAlert
  /\ lastDrop = ""
  /\ localStorage = EmptyStorage
  /\ storageFails = FALSE
  /\ probe = [stage |-> "start", orig |-> bookmarks, view |-> << >>]

\* one render of App: the view is derived from the collection
render ==
  /\ probe.stage = "start"
  /\ LET r == filteredBookmarks(bookmarks, selectedCategory, searchQuery, sortOption)
     IN /\ bookmarks' = r.stored
        /\ probe' = [probe EXCEPT !.stage = "rendered", !.view = r.view]
  /\ UNCHANGED <<view, dialogs, drag, reader, nextUuid, alertMsg, lastDrop, storage>>

NextSort == render

SpecSort == InitSort /\ [][NextSort]_vars

\* the bookmark passes the filter: its category is the selected one or all
\* are selected, and the query occurs, case ignored, in its title or domain
Passes(b) ==
  /\ selectedCategory = "All Bookmarks" \/ b.category = selectedCategory
  /\ OccursIgnoringCase(searchQuery, b.title) \/ OccursIgnoringCase(searchQuery, b.domain)

\* the positions of the collection whose bookmark passes the filter
Passing == {k \in DOMAIN probe.orig : Passes(probe.orig[k])}

\* the m-th of these positions, counted from the front
NthPassing(m) == CHOOSE k \in Passing : Cardinality({j \in Passing : j <= k}) = m

\* C11: under sort option "custom" the view is the stored collection
\* restricted to the bookmarks that pass the filter, in stored order; the
\* derivation leaves the stored collection as it was, under every option.
C11_CustomKeepsStoredOrder ==
  probe.stage = "rendered" =>
    /\ bookmarks = probe.orig
    /\ sortOption = "custom" =>
         /\ Len(probe.view) = Cardinality(Passing)
         /\ \A m \in DOMAIN probe.view : probe.view[m] = probe.orig[NthPassing(m)]

C11_Witness ==
  /\ probe.stage = "rendered"
  /\ sortOption = "custom"
  /\ Len(probe.orig) = 3
  /\ Len(probe.view) = 2
  /\ probe.view[1].createdAt < probe.view[2].createdAt
  /\ probe.view[1] = probe.orig[1]
  /\ probe.view[2] = probe.orig[3]

\* a sorts before b, or ties with it, under the key of the option
InOrder(a, b, option) ==
  CASE option = "newest" -> a.createdAt >= b.createdAt
    [] option = "oldest" -> a.createdAt <= b.createdAt
    [] option = "a-z" -> localeCompare(a.title, b.title) <= 0
    [] option = "z-a" -> localeCompare(a.title, b.title) >= 0
    [] option = "domain" -> localeCompare(a.domain, b.domain) <= 0

\* a and b tie under the key of the option
Ties(a, b, option) == InOrder(a, b, option) /\ InOrder(b, a, option)

\* C12: under a sort option other than "custom" the view holds exactly the
\* bookmarks that pass the filter, ordered by the key of the option
\* (descending createdAt for "newest", ascending for "oldest", ascending
\* and descending title for "a-z" and "z-a", ascending domain for
\* "domain"), and two bookmarks that tie keep their stored order.
C12_StableSort ==
  (probe.stage = "rendered" /\ sortOption # "custom") =>
    /\ Len(probe.view) = Cardinality(Passing)
    /\ \A k \in Passing : \E m \in DOMAIN probe.view : probe.view[m] = probe.orig[k]
    /\ \A i, j \in DOMAIN probe.view :
         i < j =>
           /\ InOrder(probe.view[i], probe.view[j], sortOption)
           /\ Ties(probe.view[i], probe.view[j], sortOption) =>
                findIndex(probe.orig, probe.view[i].id) < findIndex(probe.orig, probe.view[j].id)

C12_Witness ==
  /\ probe.stage = "rendered"
  /\ sortOption = "z-a"
  /\ Len(probe.view) = 3
  /\ probe.orig[1].id = "s4"
  /\ probe.orig[2].id = "s3"
  /\ probe.orig[3].id = "s2"
  /\ probe.view[1].id = "s4"
  /\ probe.view[2].id = "s2"
  /\ probe.view[3].id = "s3"

====
